---- MODULE Spec2Model ----
(***************************************************************************)
(* Model of strax/pulse_processing.py: baseline, integrate, record_links   *)
(* and find_hits over an array of fixed-width records.                     *)
(*                                                                         *)
(* Arrays are sequences; the code's 0-based index k is element k + 1.      *)
(* Floating point values (the baseline) are exact rationals in lowest      *)
(* terms, [num, den] with den > 0.                                         *)
(***************************************************************************)
EXTENDS Integers, Sequences, FiniteSets, TLC

VARIABLES
    records,          \* the record array the caller owns
    input,            \* the record array as it was handed to the last call
    called,           \* the operation of the last call
    args,             \* the arguments of the last call
    outcome,          \* how the last call ended
    previous_record,  \* record_links: first returned array
    next_record,      \* record_links: second returned array
    result_buffer,    \* find_hits: the chunk buffer
    gen,              \* find_hits: the generator's frame
    chunks,           \* find_hits: the chunks the consumer has saved, in order
    n_baseline        \* number of baseline calls made on this array

vars == <<records, input, called, args, outcome, previous_record, next_record,
          result_buffer, gen, chunks, n_baseline>>

----------------------------------------------------------------------------
(* Bounds of the model *)

MaxRecords == 2
MaxLinkRecords == 4
MaxBaseRecords == 3
MaxHitRecords == 3
MaxChunk == 3
MaxBaselineCalls == 2

(* Constants of the program *)

NOT_APPLICABLE == -1

samples_per_record == 6

----------------------------------------------------------------------------
(* Arithmetic *)

Abs(x) == IF x < 0 THEN -x ELSE x

Min(a, b) == IF a < b THEN a ELSE b

Max(a, b) == IF a > b THEN a ELSE b

RECURSIVE GCD(_, _)
GCD(a, b) == IF b = 0 THEN a ELSE GCD(b, a % b)

\* (variant: rounding down)
TruncDivFloor(n, d) == n \div d

\* Division rounding toward zero, as a float-to-integer conversion does.
TruncDiv(n, d) == IF n >= 0 THEN n \div d ELSE -((-n) \div d)

Rat(n, d) ==
    LET g == GCD(Abs(n), d)
    IN  [num |-> n \div g, den |-> d \div g]

RECURSIVE SumSeq(_)
SumSeq(s) == IF s = <<>> THEN 0 ELSE Head(s) + SumSeq(Tail(s))

\* The end of the slice a[:k] of an array of n elements.
SliceEnd(k, n) == IF k < 0 THEN Max(0, n + k) ELSE Min(k, n)

\* a[:k].mean(), for a non-empty slice
Mean(a, k) ==
    LET e == SliceEnd(k, Len(a))
    IN  Rat(SumSeq(SubSeq(a, 1, e)), e)

\* int(bl)
IntOf(bl) == TruncDiv(bl.num, bl.den)

\* A float stored into an element of an int16 array.
ToInt16(bl) == ((IntOf(bl) + 32768) % 65536) - 32768

\* records['channel'].max() of a non-empty array
RECURSIVE MaxChannelOf(_)
MaxChannelOf(recs) ==
    IF Len(recs) = 1 THEN recs[1].channel
    ELSE Max(recs[1].channel, MaxChannelOf(Tail(recs)))

----------------------------------------------------------------------------
(* baseline *)

\* last = min(samples_per_record, d.pulse_length - d.record_i * samples_per_record)
Last(d) ==
    Min(samples_per_record, d.pulse_length - d.record_i * samples_per_record)

\* d.data[:last] = int(bl) - d.data[:last]
Subtracted(data, bl, last) ==
    LET e == SliceEnd(last, Len(data))
    IN  [k \in 1..Len(data) |-> IF k <= e THEN IntOf(bl) - data[k] ELSE data[k]]

\* One iteration of the loop over the records: the record as rewritten and
\* the lookup table after it.
BaselineStep(d, last_bl_in, baseline_samples) ==
    LET first == d.record_i = 0
        mean  == Mean(d.data, baseline_samples)
        bl    == IF first THEN mean
                 ELSE Rat(last_bl_in[d.channel], 1)
        table == IF first
                 THEN [last_bl_in EXCEPT ![d.channel] = ToInt16(mean)]
                 ELSE last_bl_in
    IN  [d     |-> [d EXCEPT !.data = Subtracted(d.data, bl, Last(d)),
                             !.baseline = bl],
         table |-> table]

RECURSIVE BaselineLoop(_, _, _, _)
BaselineLoop(recs, d_i, last_bl_in, baseline_samples) ==
    IF d_i > Len(recs) THEN recs
    ELSE LET s == BaselineStep(recs[d_i], last_bl_in, baseline_samples)
         IN  BaselineLoop([recs EXCEPT ![d_i] = s.d], d_i + 1, s.table,
                          baseline_samples)

BaselineResult(recs, baseline_samples) ==
    IF Len(recs) = 0 THEN recs
    ELSE BaselineLoop(recs, 1, [c \in 0..MaxChannelOf(recs) |-> 0],
                      baseline_samples)

----------------------------------------------------------------------------
(* integrate *)

\* r['data'].sum()
DataSum(r) == SumSeq(r.data)

\* (variant: the sum is added to the area already stored)
IntegrateAccumulating(recs) ==
    [k \in 1..Len(recs) |->
        [recs[k] EXCEPT !.area = recs[k].area + DataSum(recs[k])]]

\* (variant: the sum runs on from one record to the next)
RECURSIVE IntegrateRunning(_)
IntegrateRunning(recs) ==
    IF Len(recs) = 0 THEN recs
    ELSE LET n    == Len(recs)
             head == IntegrateRunning(SubSeq(recs, 1, n - 1))
             sofar == IF n = 1 THEN 0 ELSE head[n - 1].area
         IN  Append(head,
                    [recs[n] EXCEPT !.area = sofar + DataSum(recs[n])])

\* (variant: the sum is stored in the baseline field)
IntegrateIntoBaseline(recs) ==
    [k \in 1..Len(recs) |->
        [recs[k] EXCEPT !.baseline = Rat(DataSum(recs[k]), 1)]]

IntegrateResult(recs) ==
    [k \in 1..Len(recs) |-> [recs[k] EXCEPT !.area = DataSum(recs[k])]]

----------------------------------------------------------------------------
(* record_links *)

\* The frame of the loop: the two result arrays, the lookup table and
\* whether the assertion has failed.
LinksStart(recs) ==
    [previous_record  |-> [k \in 1..Len(recs) |-> NOT_APPLICABLE],
     next_record      |-> [k \in 1..Len(recs) |-> NOT_APPLICABLE],
     last_record_seen |-> [c \in 0..MaxChannelOf(recs) |-> NOT_APPLICABLE],
     failed           |-> FALSE]

\* (variant: no assertion)
AssertSkipped(last_i) == TRUE

\* assert last_i != NOT_APPLICABLE
AssertPasses(last_i) == last_i # NOT_APPLICABLE

\* (variant: the forward link is not written)
LinkContinuingNoNext(f, i, last_i) ==
    [f EXCEPT !.previous_record[i + 1] = last_i]

\* The continuation branch with the assertion passed: code index i.
LinkContinuing(f, i, last_i) ==
    [f EXCEPT !.previous_record[i + 1] = last_i,
              !.next_record[last_i + 1] = i]

\* (variant: a new pulse is linked to the record before it on the channel)
LinkStartingForward(f, i, last_i) ==
    IF last_i = NOT_APPLICABLE
    THEN [f EXCEPT !.previous_record[i + 1] = NOT_APPLICABLE]
    ELSE [f EXCEPT !.previous_record[i + 1] = NOT_APPLICABLE,
                   !.next_record[last_i + 1] = i]

\* The branch of a record that starts a new pulse.
LinkStarting(f, i, last_i) ==
    [f EXCEPT !.previous_record[i + 1] = NOT_APPLICABLE]

\* (variant: only the first record of a pulse is remembered)
SeenAtPulseStart(f, r, i) ==
    IF r.record_i = 0 THEN [f EXCEPT !.last_record_seen[r.channel] = i] ELSE f

\* (variant: one last record seen for all channels)
SeenOnEveryChannel(f, r, i) ==
    [f EXCEPT !.last_record_seen = [c \in DOMAIN @ |-> i]]

\* last_record_seen[ch] = i
Seen(f, r, i) == [f EXCEPT !.last_record_seen[r.channel] = i]

LinksStep(f, r, i) ==
    LET ch     == r.channel
        last_i == f.last_record_seen[ch]
        g      == IF r.record_i = 0
                  THEN LinkStarting(f, i, last_i)
                  ELSE IF ~AssertPasses(last_i)
                       THEN [f EXCEPT !.previous_record[i + 1] = last_i,
                                      !.failed = TRUE]
                       ELSE LinkContinuing(f, i, last_i)
    IN  IF g.failed THEN g
        ELSE Seen(g, r, i)

RECURSIVE LinksLoop(_, _, _)
LinksLoop(recs, i, f) ==
    IF i >= Len(recs) \/ f.failed THEN f
    ELSE LinksLoop(recs, i + 1, LinksStep(f, recs[i + 1], i))

\* How record_links(records) ends and what it returns.
RecordLinksResult(recs) ==
    IF Len(recs) = 0
    THEN [outcome |-> "ValueError", previous_record |-> <<>>, next_record |-> <<>>]
    ELSE LET f == LinksLoop(recs, 0, LinksStart(recs))
         IN  IF f.failed
             THEN [outcome |-> "AssertionError",
                   previous_record |-> <<>>, next_record |-> <<>>]
             ELSE [outcome |-> "returned",
                   previous_record |-> f.previous_record,
                   next_record |-> f.next_record]

----------------------------------------------------------------------------
(* find_hits *)

ZeroHit ==
    [time |-> 0, channel |-> 0, dt |-> 0, record_i |-> 0,
     left |-> 0, right |-> 0, length |-> 0]

\* above_threshold = r['data'][i] > threshold
AboveThreshold(sample, threshold) == sample > threshold

\* (variant: the hit ends one sample later)
HitEndNext(i) == i + 1

\* hit_end = i
HitEnd(i) == i

\* (variant: record_i taken from the record's own field)
MakeHitOwnIndex(r, record_i, hit_start, hit_end) ==
    [left     |-> hit_start,
     right    |-> hit_end,
     time     |-> r.time + hit_start * r.dt,
     length   |-> hit_end - hit_start + 1,
     dt       |-> r.dt,
     channel  |-> r.channel,
     record_i |-> r.record_i]

\* The fields written into result_buffer[offset].
MakeHit(r, record_i, hit_start, hit_end) ==
    [left     |-> hit_start,
     right    |-> hit_end,
     time     |-> r.time + hit_start * r.dt,
     length   |-> hit_end - hit_start + 1,
     dt       |-> r.dt,
     channel  |-> r.channel,
     record_i |-> record_i]

\* (variant: the position is not reset)
OffsetKept(offset) == offset

\* offset = 0, on resuming after the yield of a full buffer
OffsetAfterYield(offset) == 0

\* (variant: the open run is carried over)
InIntervalKept(in_interval) == in_interval

\* in_interval = False, at the start of each record
InIntervalAtRecordStart(in_interval) == FALSE

\* (variant: the buffer is flushed one hit too late)
BufferFullLate(offset, buf) == offset = Len(buf) + 1

\* offset == len(result_buffer)
BufferFull(offset, buf) == offset = Len(buf)

\* result_buffer[offset] is an element of the buffer.
InBuffer(offset, buf) == 0 <= offset /\ offset < Len(buf)

\* The generator runs from the body of the inner loop at (f.record_i, f.i)
\* to its next yield: the place it stops at, its frame and the buffer. A write
\* outside the buffer ends the run at "out_of_bounds".
RECURSIVE Scan(_, _, _, _)
RECURSIVE Advance(_, _, _, _)
Scan(recs, threshold, f, buf) ==
    LET r      == recs[f.record_i + 1]
        above  == AboveThreshold(r.data[f.i + 1], threshold)
        starts == ~f.in_interval /\ above
        in1    == f.in_interval \/ above
        hs1    == IF starts THEN f.i ELSE f.hit_start
        closes == in1 /\ (~above \/ f.i = samples_per_record)
        hit    == MakeHit(r, f.record_i, hs1, HitEnd(f.i))
        buf1   == IF closes THEN [buf EXCEPT ![f.offset + 1] = hit] ELSE buf
        f1     == [f EXCEPT !.in_interval = in1 /\ ~closes,
                            !.hit_start = hs1,
                            !.offset = IF closes THEN @ + 1 ELSE @]
    IN  IF closes /\ ~InBuffer(f.offset, buf)
        THEN [pc |-> "out_of_bounds", f |-> f, buf |-> buf]
        ELSE IF closes /\ BufferFull(f1.offset, buf)
        THEN [pc |-> "yield_full", f |-> f1, buf |-> buf1]
        ELSE Advance(recs, threshold, f1, buf1)

\* The next iteration of the loops, or the final yield after them.
Advance(recs, threshold, f, buf) ==
    IF f.i + 1 < samples_per_record
    THEN Scan(recs, threshold, [f EXCEPT !.i = @ + 1], buf)
    ELSE IF f.record_i + 1 < Len(recs)
         THEN Scan(recs, threshold,
                   [f EXCEPT !.record_i = @ + 1, !.i = 0,
                             !.in_interval = InIntervalAtRecordStart(@),
                             !.hit_start = -1],
                   buf)
         ELSE [pc |-> "yield_final", f |-> f, buf |-> buf]

NoFrame ==
    [record_i |-> 0, i |-> 0, in_interval |-> FALSE, hit_start |-> -1,
     offset |-> 0]

\* next() on the generator: from where it stands to its next yield or its end.
Resume(pc, recs, threshold, f, buf) ==
    CASE pc = "created" ->
            IF Len(recs) = 0
            THEN [pc |-> "done", f |-> f, buf |-> buf]
            ELSE Scan(recs, threshold, NoFrame, buf)
      [] pc = "yield_full" ->
            Advance(recs, threshold,
                    [f EXCEPT !.offset = OffsetAfterYield(@)], buf)
      [] pc = "yield_final" ->
            [pc |-> "done", f |-> f, buf |-> buf]

\* The consumer of the generator keeps a copy of result_buffer[:n_added].
Saved(chs, buf, n_added) ==
    Append(chs, SubSeq(buf, 1, SliceEnd(n_added, Len(buf))))

----------------------------------------------------------------------------
(* The record arrays handed to the operations *)

\* A record as the ingester delivers it: the samples of w up to the end of
\* the pulse, zero padding after it, baseline and area not yet computed.
Rec(ch, t, step, ri, pl, w) ==
    [channel      |-> ch,
     time         |-> t,
     dt           |-> step,
     record_i     |-> ri,
     pulse_length |-> pl,
     baseline     |-> Rat(0, 1),
     area         |-> 0,
     data         |-> [k \in 1..samples_per_record |->
                          IF k <= pl - ri * samples_per_record
                          THEN w[k] ELSE 0]]

Arrays(S, n) == UNION {[1..m -> S] : m \in 0..n}

Channels == {0, 1}

\* A short pulse of one record (two samples of padding), and the two
\* records of a pulse of ten samples.
Fragments ==
    {[record_i |-> 0, pulse_length |-> samples_per_record - 2],
     [record_i |-> 0, pulse_length |-> 2 * samples_per_record - 2],
     [record_i |-> 1, pulse_length |-> 2 * samples_per_record - 2]}

ExampleWave == <<0, 20, 20, 0, 30, 0>>

RawWaves == {<<3, 4, -8, 5, 1, 2>>, <<-3, -4, 8, -5, -1, -2>>}

HitWaves ==
    {ExampleWave,
     <<20, 0, 30, 0, 20, 0>>,
     <<0, 30, 0, 0, 20, 20>>,
     <<20, 20, 20, 20, 20, 20>>}

Thresholds == {15, 20}

BaselineSamples == {1, 2}

GeneralRecords ==
    {Rec(ch, 0, 1, fr.record_i, fr.pulse_length, ExampleWave) :
        ch \in Channels,
        fr \in {g \in Fragments : g.pulse_length # 2 * samples_per_record - 2
                                    \/ g.record_i = 1}}

BaseRecords ==
    {Rec(ch, 0, 1, fr.record_i, fr.pulse_length, w) :
        ch \in Channels, fr \in Fragments, w \in RawWaves}

LinkRecords ==
    {Rec(ch, 0, 1, ri, 3 * samples_per_record, ExampleWave) :
        ch \in Channels, ri \in 0..2}

HitRecords ==
    {Rec(m.channel, m.time, m.dt, 0, samples_per_record, w) :
        m \in {[channel |-> 0, time |-> 0, dt |-> 1],
                [channel |-> 1, time |-> 100, dt |-> 2]},
        w \in HitWaves}

----------------------------------------------------------------------------
(* State machine *)

NoArgs == [baseline_samples |-> 0, threshold |-> 0, chunk_size |-> 0]

NoGen == [pc |-> "none", f |-> NoFrame]

\* The result variables hold what the last call returned: nothing, unless
\* the last call was the operation they belong to.
NoLinks == previous_record = <<>> /\ next_record = <<>>

NoHits == result_buffer = <<>> /\ gen = NoGen /\ chunks = <<>>

InitWith(S, n) ==
    /\ records \in Arrays(S, n)
    /\ input = <<>>
    /\ called = "none"
    /\ args = NoArgs
    /\ outcome = "none"
    /\ NoLinks
    /\ NoHits
    /\ n_baseline = 0

Init == InitWith(GeneralRecords, MaxRecords)

InitBaseline == InitWith(BaseRecords, MaxBaseRecords)

InitLinks == InitWith(LinkRecords, MaxLinkRecords)

InitHits == InitWith(HitRecords, MaxHitRecords)

\* The caller runs one operation at a time: a find_hits call is consumed to
\* its end before anything else is called.
Idle == gen.pc \in {"none", "done"}

baseline ==
    /\ Idle
    /\ n_baseline < MaxBaselineCalls
    /\ \E baseline_samples \in BaselineSamples :
          /\ args' = [NoArgs EXCEPT !.baseline_samples = baseline_samples]
          /\ records' = BaselineResult(records, baseline_samples)
    /\ input' = records
    /\ called' = "baseline"
    /\ outcome' = "returned"
    /\ n_baseline' = n_baseline + 1
    /\ previous_record' = <<>>
    /\ next_record' = <<>>
    /\ result_buffer' = <<>>
    /\ gen' = NoGen
    /\ chunks' = <<>>

integrate ==
    /\ Idle
    /\ records' = IntegrateResult(records)
    /\ input' = records
    /\ called' = "integrate"
    /\ args' = NoArgs
    /\ outcome' = "returned"
    /\ previous_record' = <<>>
    /\ next_record' = <<>>
    /\ result_buffer' = <<>>
    /\ gen' = NoGen
    /\ chunks' = <<>>
    /\ UNCHANGED n_baseline

record_links ==
    /\ Idle
    /\ \E res \in {RecordLinksResult(records)} :
           /\ outcome' = res.outcome
           /\ previous_record' = res.previous_record
           /\ next_record' = res.next_record
    /\ input' = records
    /\ called' = "record_links"
    /\ args' = NoArgs
    /\ result_buffer' = <<>>
    /\ gen' = NoGen
    /\ chunks' = <<>>
    /\ UNCHANGED <<records, n_baseline>>

\* The call: the buffer is allocated and the generator created, not yet run.
find_hits ==
    /\ Idle
    /\ \E threshold \in Thresholds, chunk_size \in 1..MaxChunk :
          /\ args' = [NoArgs EXCEPT !.threshold = threshold,
                                    !.chunk_size = chunk_size]
          /\ result_buffer' = [k \in 1..chunk_size |-> ZeroHit]
    /\ gen' = [pc |-> "created", f |-> NoFrame]
    /\ chunks' = <<>>
    /\ input' = records
    /\ called' = "find_hits"
    /\ outcome' = "running"
    /\ previous_record' = <<>>
    /\ next_record' = <<>>
    /\ UNCHANGED <<records, n_baseline>>

\* The consumer asks the generator for its next chunk.
find_hits_next ==
    /\ gen.pc \in {"created", "yield_full", "yield_final"}
    /\ \E res \in {Resume(gen.pc, records, args.threshold, gen.f, result_buffer)} :
           /\ gen' = [pc |-> res.pc, f |-> res.f]
           /\ result_buffer' = res.buf
           /\ chunks' = IF res.pc \in {"done", "out_of_bounds"} THEN chunks
                        ELSE Saved(chunks, res.buf, res.f.offset)
           /\ outcome' = CASE res.pc = "done" -> "returned"
                            [] res.pc = "out_of_bounds" -> "out_of_bounds"
                            [] OTHER -> "running"
    /\ UNCHANGED <<records, input, called, args, previous_record, next_record,
                   n_baseline>>

Next == baseline \/ integrate \/ record_links \/ find_hits \/ find_hits_next

\* One call on records fresh from the ingester.
NextBaseline == n_baseline = 0 /\ baseline

NextLinks == record_links

\* One call, consumed to its end.
NextHits == (called = "none" /\ find_hits) \/ find_hits_next

Spec == Init /\ [][Next]_vars

SpecBaseline == InitBaseline /\ [][NextBaseline]_vars

SpecLinks == InitLinks /\ [][NextLinks]_vars

\* One call or two of baseline and record_links on interleaved channels.
NextChannels ==
    \/ n_baseline = 0 /\ baseline
    \/ called # "record_links" /\ record_links

SpecChannels == InitBaseline /\ [][NextChannels]_vars

SpecHits == InitHits /\ [][NextHits]_vars

----------------------------------------------------------------------------
(* Vocabulary of the properties *)

RECURSIVE Flatten(_)
Flatten(seqs) == IF seqs = <<>> THEN <<>> ELSE Head(seqs) \o Flatten(Tail(seqs))

\* The hits the consumer holds so far, in the order they were flushed.
Emitted == Flatten(chunks)

Finished(op) == called = op /\ outcome # "running" /\ outcome # "none"

\* Sample k (from 0) of a record.
Sample(r, k) == r.data[k + 1]

LastIndex == samples_per_record - 1

\* a..b (from 0) is a maximal run of samples above t in record r.
IsMaximalRun(r, t, a, b) ==
    /\ a <= b
    /\ \A k \in a..b : Sample(r, k) > t
    /\ a = 0 \/ Sample(r, a - 1) <= t
    /\ b = LastIndex \/ Sample(r, b + 1) <= t

\* Sample a is the first of a maximal run.
IsRunStart(r, t, a) ==
    /\ Sample(r, a) > t
    /\ a = 0 \/ Sample(r, a - 1) <= t

\* The last sample of the run that sample b belongs to.
RECURSIVE RunEnd(_, _, _)
RunEnd(r, t, b) ==
    IF b = LastIndex \/ Sample(r, b + 1) <= t THEN b ELSE RunEnd(r, t, b + 1)

RunStarts(r, t) == {a \in 0..LastIndex : IsRunStart(r, t, a)}

\* The starts of the maximal runs that end before the last sample.
ClosedRunStarts(r, t) == {a \in RunStarts(r, t) : RunEnd(r, t, a) < LastIndex}

\* A continuation record with no earlier record of its channel in the array.
Orphans(recs) ==
    {k \in 1..Len(recs) :
        /\ recs[k].record_i # 0
        /\ \A j \in 1..(k - 1) : recs[j].channel # recs[k].channel}

\* A continuation record with no earlier first record of its channel.
Headless(recs) ==
    {k \in 1..Len(recs) :
        /\ recs[k].record_i > 0
        /\ \A j \in 1..(k - 1) :
              ~(recs[j].channel = recs[k].channel /\ recs[j].record_i = 0)}

\* The record before k on the channel of k, 0 if there is none.
PrevOnChannel(recs, k) ==
    LET before == {j \in 1..(k - 1) : recs[j].channel = recs[k].channel}
    IN  IF before = {} THEN 0
        ELSE CHOOSE j \in before : \A m \in before : m <= j

\* The ordering invariant: on each channel a record is the first of a pulse
\* or follows the record before it of the same pulse.
Ordered(recs) ==
    \A k \in 1..Len(recs) :
        \/ recs[k].record_i = 0
        \/ /\ PrevOnChannel(recs, k) # 0
           /\ recs[PrevOnChannel(recs, k)].record_i = recs[k].record_i - 1

\* An ordered array whose records agree on the length of their pulse.
WellFormed(recs) ==
    /\ Ordered(recs)
    /\ \A k \in 1..Len(recs) :
          /\ recs[k].record_i * samples_per_record < recs[k].pulse_length
          /\ recs[k].record_i > 0 =>
                recs[PrevOnChannel(recs, k)].pulse_length = recs[k].pulse_length

\* The first record of the pulse record k belongs to, in an ordered array.
RECURSIVE PulseHead(_, _)
PulseHead(recs, k) ==
    IF recs[k].record_i = 0 THEN k ELSE PulseHead(recs, PrevOnChannel(recs, k))

\* q is the exact mean of the first n samples of data.
IsMeanOfFirst(q, data, n) ==
    q.num * n = q.den * SumSeq(SubSeq(data, 1, n))

\* t is the rational q with its fraction dropped.
IsTruncation(t, q) ==
    /\ Abs(t) * q.den <= Abs(q.num)
    /\ Abs(q.num) < (Abs(t) + 1) * q.den
    /\ t * q.num >= 0

\* The number of samples of a record that belong to its pulse.
ValidCount(r) ==
    Min(samples_per_record, r.pulse_length - r.record_i * samples_per_record)

\* The hits of one find_hits run into a buffer too large to fill.
Unchunked(recs, t) ==
    LET big == [k \in 1..(Len(recs) * samples_per_record + 1) |-> ZeroHit]
        res == Resume("created", recs, t, NoFrame, big)
    IN  IF res.pc = "done" THEN <<>>
        ELSE SubSeq(res.buf, 1, SliceEnd(res.f.offset, Len(res.buf)))

\* The hit of the run that starts at sample a of the record at position p
\* (both from 0) and ends before the last sample.
HitOfRun(r, p, t, a) ==
    LET right == RunEnd(r, t, a) + 1
    IN  [left     |-> a,
         right    |-> right,
         length   |-> right - a + 1,
         time     |-> r.time + a * r.dt,
         dt       |-> r.dt,
         channel  |-> r.channel,
         record_i |-> p]

RECURSIVE HitsFrom(_, _, _, _)
HitsFrom(r, p, t, a) ==
    IF a > LastIndex THEN <<>>
    ELSE (IF IsRunStart(r, t, a) /\ RunEnd(r, t, a) < LastIndex
          THEN <<HitOfRun(r, p, t, a)>> ELSE <<>>)
         \o HitsFrom(r, p, t, a + 1)

RECURSIVE HitsOfRecords(_, _, _)
HitsOfRecords(recs, p, t) ==
    IF p >= Len(recs) THEN <<>>
    ELSE HitsFrom(recs[p + 1], p, t, 0) \o HitsOfRecords(recs, p + 1, t)

IsPrefix(a, b) == Len(a) <= Len(b) /\ a = SubSeq(b, 1, Len(a))

Shape(h) == <<h.left, h.right, h.length>>

----------------------------------------------------------------------------
(* Claims *)

\* C1: when find_hits has finished, every maximal run of samples above the
\* threshold inside a record has exactly one hit, with left the first index
\* of the run, and every hit belongs to such a run.
C1_OneHitPerMaximalRun ==
    (Finished("find_hits") /\ gen.pc = "done") =>
        /\ \A p \in 1..Len(input) :
              \A a \in RunStarts(input[p], args.threshold) :
                  Cardinality({n \in 1..Len(Emitted) :
                                  /\ Emitted[n].record_i = p - 1
                                  /\ Emitted[n].left = a}) = 1
        /\ \A n \in 1..Len(Emitted) :
              /\ Emitted[n].record_i \in 0..(Len(input) - 1)
              /\ Emitted[n].left
                    \in RunStarts(input[Emitted[n].record_i + 1], args.threshold)

\* C2: after baseline on an ordered array, the first record of each pulse
\* has baseline equal to the mean of its first baseline_samples raw samples,
\* and every continuation record has the baseline of its pulse's first record.
C2_PulseSharesBaseline ==
    (Finished("baseline") /\ WellFormed(input)) =>
        \A k \in 1..Len(input) :
            /\ input[k].record_i = 0 =>
                  IsMeanOfFirst(records[k].baseline, input[k].data,
                                args.baseline_samples)
            /\ input[k].record_i > 0 =>
                  records[k].baseline = records[PulseHead(input, k)].baseline

\* C3: after baseline, each of the first
\* min(samples_per_record, pulse_length - record_i * samples_per_record)
\* samples of every record is the truncated baseline of that record minus
\* the raw sample, and every later sample is unchanged.
C3_ValidSamplesSubtracted ==
    Finished("baseline") =>
        /\ Len(records) = Len(input)
        /\ \A k \in 1..Len(input) :
              \A n \in 1..samples_per_record :
                  IF n <= ValidCount(input[k])
                  THEN IsTruncation(records[k].data[n] + input[k].data[n],
                                    records[k].baseline)
                  ELSE records[k].data[n] = input[k].data[n]

\* A pulse of two records on one channel, the second with padding, whose
\* baseline is negative and not an integer, has been baselined.
C3_Witness ==
    /\ Finished("baseline")
    /\ WellFormed(input)
    /\ \E k \in 1..Len(input) :
          /\ input[k].record_i = 0
          /\ records[k].baseline.den > 1
          /\ records[k].baseline.num < 0
    /\ \E k \in 1..Len(input) :
          /\ input[k].record_i = 1
          /\ ValidCount(input[k]) < samples_per_record
          /\ records[k].baseline.num # 0

\* C4: after a successful record_links call every entry of the two arrays is
\* NOT_APPLICABLE or an index into the input, and the arrays mirror each
\* other: previous_record[next_record[i]] = i and
\* next_record[previous_record[i]] = i wherever the inner entry is an index.
C4_LinksMirror ==
    (Finished("record_links") /\ outcome = "returned") =>
        /\ Len(previous_record) = Len(input)
        /\ Len(next_record) = Len(input)
        /\ \A k \in 1..Len(input) :
              /\ previous_record[k] \in {NOT_APPLICABLE} \cup (0..(Len(input) - 1))
              /\ next_record[k] \in {NOT_APPLICABLE} \cup (0..(Len(input) - 1))
              /\ next_record[k] # NOT_APPLICABLE =>
                    previous_record[next_record[k] + 1] = k - 1
              /\ previous_record[k] # NOT_APPLICABLE =>
                    next_record[previous_record[k] + 1] = k - 1

\* A successful call has linked the records of two channels that interleave.
C4_Witness ==
    /\ Finished("record_links")
    /\ outcome = "returned"
    /\ \E k \in 1..Len(input) :
          /\ next_record[k] # NOT_APPLICABLE
          /\ next_record[k] > k
    /\ \E j, k \in 1..Len(input) : input[j].channel # input[k].channel

\* C6: record_links on an array with a continuation record whose channel has
\* no earlier record fails with an assertion failure and returns nothing.
C6_OrphanFailsLoudly ==
    (Finished("record_links") /\ Orphans(input) # {}) =>
        /\ outcome = "AssertionError"
        /\ previous_record = <<>>
        /\ next_record = <<>>

\* The call failed on an orphan that follows records already linked.
C6_Witness ==
    /\ Finished("record_links")
    /\ outcome = "AssertionError"
    /\ \E k \in Orphans(input) :
          /\ k > 2
          /\ input[2].record_i # 0
          /\ input[2].channel # input[k].channel

\* C7: baseline on an array with a continuation record whose channel has had
\* no earlier first record fails loudly instead of using the zero default.
C7_HeadlessFailsLoudly ==
    (Finished("baseline") /\ Headless(input) # {}) => outcome # "returned"

\* C8: on an empty array each of the four operations completes without an
\* error, changes nothing, and returns no links and no hits.
C8_EmptyIsNoOp ==
    (called # "none" /\ input = <<>>) =>
        /\ outcome \in {"returned", "running"}
        /\ records = <<>>
        /\ previous_record = <<>>
        /\ next_record = <<>>
        /\ Emitted = <<>>

\* C5: every chunk flushed by a full buffer has exactly chunk_size hits, the
\* remainder is flushed once at the end of the scan, and the chunks in flush
\* order concatenate to the hits of one unchunked run: 7 hits with
\* chunk_size 3 give chunks of 3, 3 and 1.
C5_ChunksConcatenate ==
    called = "find_hits" =>
        \A all \in {Unchunked(input, args.threshold)} :
        LET C == args.chunk_size
            n == Len(all)
        IN  /\ \A c \in 1..(Len(chunks) - 1) : Len(chunks[c]) = C
            /\ gen.pc = "yield_full" =>
                  /\ chunks # <<>>
                  /\ Len(chunks[Len(chunks)]) = C
                  /\ gen.f.offset = C
            /\ IsPrefix(Emitted, all)
            /\ gen.pc \in {"created", "yield_full"} =>
                  Len(chunks) <= n \div C
            /\ (gen.pc \in {"yield_final", "done"} /\ input # <<>>) =>
                  /\ Emitted = all
                  /\ Len(chunks) = (n \div C) + 1
                  /\ Len(chunks[Len(chunks)]) = n % C
            /\ (gen.pc = "done" /\ input = <<>>) => chunks = <<>>
            /\ (C = 3 /\ n = 7 /\ gen.pc = "done") =>
                  [c \in 1..Len(chunks) |-> Len(chunks[c])] = <<3, 3, 1>>

\* Seven hits have been delivered through a buffer of three.
C5_Witness ==
    /\ called = "find_hits"
    /\ gen.pc = "done"
    /\ args.chunk_size = 3
    /\ Len(Emitted) = 7
    /\ Len(chunks) = 3

\* C9: the hits emitted are, in order, those of the runs that end before the
\* last sample of their record, each with left the first index of the run,
\* right the first index after it, length = right - left + 1,
\* time = record.time + left * record.dt, the record's dt and channel, and
\* record_i the position of the record in the array; samples
\* [0,20,20,0,30,0] with threshold 15 give (left, right, length) = (1,3,3)
\* and (4,5,2).
C9_HitFields ==
    called = "find_hits" =>
        \A expected \in {HitsOfRecords(input, 0, args.threshold)} :
            /\ IsPrefix(Emitted, expected)
            /\ gen.pc = "done" => Emitted = expected
            /\ (gen.pc = "done" /\ args.threshold = 15) =>
                  \A p \in 1..Len(input) :
                      input[p].data = ExampleWave =>
                          \E n \in 1..(Len(Emitted) - 1) :
                              /\ Emitted[n].record_i = p - 1
                              /\ Emitted[n + 1].record_i = p - 1
                              /\ Shape(Emitted[n]) = <<1, 3, 3>>
                              /\ Shape(Emitted[n + 1]) = <<4, 5, 2>>
                              /\ Cardinality({m \in 1..Len(Emitted) :
                                      Emitted[m].record_i = p - 1}) = 2

\* The example record stands third in the array, on channel 1, and its two
\* hits have been emitted.
C9_Witness ==
    /\ called = "find_hits"
    /\ gen.pc = "done"
    /\ args.threshold = 15
    /\ Len(input) = 3
    /\ input[3].data = ExampleWave
    /\ input[3].channel = 1
    /\ \E n \in 1..Len(Emitted) :
          /\ Emitted[n].record_i = 2
          /\ Shape(Emitted[n]) = <<4, 5, 2>>
          /\ Emitted[n].time = input[3].time + 4 * input[3].dt

RECURSIVE ChainFrom(_, _)
ChainFrom(next, k) ==
    IF next[k] = NOT_APPLICABLE \/ next[k] + 1 <= k \/ next[k] + 1 > Len(next)
    THEN <<k>>
    ELSE <<k>> \o ChainFrom(next, next[k] + 1)

\* C11: on an ordered array, following next_record from the first record of
\* a pulse reaches records with record_i 0, 1, 2, ... without a gap, reaches
\* every record of the pulse and no record of another pulse.
C11_ChainIsThePulse ==
    (Finished("record_links") /\ Ordered(input) /\ input # <<>>) =>
        /\ outcome = "returned"
        /\ \A k \in 1..Len(input) :
              input[k].record_i = 0 =>
                  \A chain \in {ChainFrom(next_record, k)} :
                      /\ \A n \in 1..Len(chain) :
                            input[chain[n]].record_i = n - 1
                      /\ {chain[n] : n \in 1..Len(chain)}
                            = {j \in 1..Len(input) : PulseHead(input, j) = k}
                      /\ next_record[chain[Len(chain)]] = NOT_APPLICABLE

\* A pulse of three records, with a record of the other channel between
\* them, has been chained.
C11_Witness ==
    /\ Finished("record_links")
    /\ Ordered(input)
    /\ Len(input) = 4
    /\ \E k \in 1..Len(input) :
          /\ input[k].record_i = 0
          /\ Len(ChainFrom(next_record, k)) = 3
          /\ \E j \in (k + 1)..Len(input) :
                /\ input[j].channel # input[k].channel
                /\ j < ChainFrom(next_record, k)[3]

\* C17: after a successful record_links, previous_record[i] is NOT_APPLICABLE
\* exactly when record i has record_i 0 and is otherwise the greatest index
\* below i on the channel of i; a next_record[i] other than NOT_APPLICABLE is
\* an index above i on the channel of i whose record has a record_i other
\* than 0.
C17_LinksPointAlongChannel ==
    (Finished("record_links") /\ outcome = "returned") =>
        \A i \in 1..Len(input) :
            /\ previous_record[i] = NOT_APPLICABLE <=> input[i].record_i = 0
            /\ input[i].record_i # 0 =>
                  previous_record[i] + 1 = PrevOnChannel(input, i)
            /\ next_record[i] # NOT_APPLICABLE =>
                  /\ next_record[i] + 1 > i
                  /\ next_record[i] + 1 <= Len(input)
                  /\ input[next_record[i] + 1].channel = input[i].channel
                  /\ input[next_record[i] + 1].record_i # 0

\* The last record of a pulse was followed on its channel by the first
\* record of another pulse, and a continuation record was linked back over a
\* record of the other channel.
C17_Witness ==
    /\ Finished("record_links")
    /\ outcome = "returned"
    /\ \E i \in 1..Len(input) :
          /\ next_record[i] = NOT_APPLICABLE
          /\ \E j \in (i + 1)..Len(input) :
                input[j].channel = input[i].channel /\ input[j].record_i = 0
    /\ \E i \in 1..Len(input) :
          /\ input[i].record_i # 0
          /\ previous_record[i] + 1 < i - 1

\* The sum of samples 0..n of a record.
RECURSIVE TotalUpTo(_, _)
TotalUpTo(r, n) == IF n < 0 THEN 0 ELSE Sample(r, n) + TotalUpTo(r, n - 1)

\* C12: after integrate the area of each record is the sum of all
\* samples_per_record samples of that record, the samples past the end of
\* the pulse included; it depends on no other record and on no position in
\* the array.
C12_AreaIsSumOfAllSamples ==
    Finished("integrate") =>
        /\ Len(records) = Len(input)
        /\ \A k \in 1..Len(input) :
              records[k].area = TotalUpTo(input[k], LastIndex)
        /\ \A j, k \in 1..Len(input) :
              input[j].data = input[k].data => records[j].area = records[k].area

\* Two records that end before the end of their arrays, with different
\* sums, were integrated after a baseline call.
C12_Witness ==
    /\ Finished("integrate")
    /\ n_baseline > 0
    /\ Len(input) = 2
    /\ records[1].area # records[2].area
    /\ \A k \in 1..Len(input) : Last(input[k]) < samples_per_record

\* Records r and s agree on every field outside the set of names given.
SameExcept(r, s, names) ==
    /\ DOMAIN r = DOMAIN s
    /\ \A field \in DOMAIN r \ names : r[field] = s[field]

\* C13: record_links and find_hits leave every field of every record as it
\* was; baseline changes no field but baseline and data; integrate changes no
\* field but area. time, channel, dt, record_i and pulse_length are never
\* written.
C13_OnlyOwnFieldsWritten ==
    called # "none" =>
        /\ Len(records) = Len(input)
        /\ \A k \in 1..Len(input) :
              /\ SameExcept(records[k], input[k], {"baseline", "data", "area"})
              /\ called \in {"record_links", "find_hits"} =>
                    records[k] = input[k]
              /\ called = "baseline" =>
                    SameExcept(records[k], input[k], {"baseline", "data"})
              /\ called = "integrate" =>
                    SameExcept(records[k], input[k], {"area"})

\* integrate has written a new area into records whose baseline and data an
\* earlier baseline call had written.
C13_Witness ==
    /\ Finished("integrate")
    /\ n_baseline > 0
    /\ Len(input) = 2
    /\ \E k \in 1..Len(input) :
          /\ records[k].area # input[k].area
          /\ input[k].baseline.num # 0
          /\ input[k].data # ExampleWave

\* Record r is the first of its pulse and has a non-zero sample inside the
\* pulse.
HeadWithSignal(r) ==
    /\ r.record_i = 0
    /\ \E n \in 0..(Last(r) - 1) : Sample(r, n) # 0

\* C14: integrate called again after integrate, and record_links called again
\* after record_links, give what the call before gave. baseline called again
\* after baseline does not: the baseline of a first record is taken anew from
\* the samples the call before left, and the data of a first record with a
\* non-zero sample changes again.
C14_RepeatedCalls ==
    [][/\ (called = "integrate" /\ called' = "integrate") => records' = records
       /\ (called = "record_links" /\ called' = "record_links") =>
             /\ outcome' = outcome
             /\ previous_record' = previous_record
             /\ next_record' = next_record
       /\ (called = "baseline" /\ called' = "baseline") =>
             \A k \in 1..Len(records) :
                 HeadWithSignal(records[k]) =>
                     /\ IsMeanOfFirst(records'[k].baseline, records[k].data,
                                      args'.baseline_samples)
                     /\ records'[k].data # records[k].data
      ]_vars

\* integrate was called again on the records an integrate call left, after
\* two baseline calls, and changed nothing.
C14_Witness ==
    /\ Finished("integrate")
    /\ n_baseline = 2
    /\ Len(input) = 2
    /\ input = records
    /\ \E k \in 1..Len(records) : records[k].area # 0

\* The records of channel c, in their order.
FilterChannel(recs, c) == SelectSeq(recs, LAMBDA r : r.channel = c)

\* The place in recs of the p-th record of channel c.
IndexOf(recs, c, p) ==
    CHOOSE k \in 1..Len(recs) :
        /\ recs[k].channel = c
        /\ Cardinality({j \in 1..k : recs[j].channel = c}) = p

\* A link of the array of channel c alone, renumbered to the whole array.
Lifted(recs, c, link) ==
    IF link = NOT_APPLICABLE THEN NOT_APPLICABLE
    ELSE IndexOf(recs, c, link + 1) - 1

ChannelsOf(recs) == {recs[k].channel : k \in 1..Len(recs)}

\* baseline on the records of channel c alone writes what it wrote to them
\* in the whole array.
BaselineAgreesOn(c) ==
    BaselineResult(FilterChannel(input, c), args.baseline_samples)
        = FilterChannel(records, c)

\* record_links on the records of channel c alone ends as it ended on the
\* whole array and, where it returned, links them as in the whole array.
LinksAgreeOn(c) ==
    \A sub \in {RecordLinksResult(FilterChannel(input, c))} :
        /\ sub.outcome = outcome
        /\ \A p \in 1..Len(sub.previous_record) :
              /\ previous_record[IndexOf(input, c, p)]
                    = Lifted(input, c, sub.previous_record[p])
              /\ next_record[IndexOf(input, c, p)]
                    = Lifted(input, c, sub.next_record[p])

C16_OffsetStaysInBuffer ==
    called = "find_hits" =>
        \A C \in {args.chunk_size} :
            /\ C >= 1
            /\ Len(result_buffer) = C
            /\ gen.pc # "out_of_bounds"
            /\ 0 <= gen.f.offset /\ gen.f.offset <= C
            /\ gen.pc = "created" => gen.f.offset = 0 /\ chunks = <<>>
            /\ \A c \in 1..(Len(chunks) - 1) : Len(chunks[c]) = C
            /\ gen.pc = "yield_full" =>
                  /\ gen.f.offset = C
                  /\ chunks # <<>>
                  /\ Len(chunks[Len(chunks)]) = C
            /\ (gen.pc \in {"yield_final", "done"} /\ input # <<>>) =>
                  /\ chunks # <<>>
                  /\ gen.f.offset < C
                  /\ Len(chunks[Len(chunks)]) = gen.f.offset
                  /\ Len(Emitted) % C = 0 => chunks[Len(chunks)] = <<>>

\* Six hits went through a buffer of three: two full chunks and an empty
\* last one.
C16_Witness ==
    /\ called = "find_hits"
    /\ gen.pc = "done"
    /\ args.chunk_size = 3
    /\ Len(chunks) = 3
    /\ Len(chunks[1]) = 3
    /\ Len(chunks[2]) = 3
    /\ chunks[3] = <<>>

\* C18: the hits come in non-decreasing order of the position of their
\* record and, within a record, in increasing order of left; each has
\* 0 <= left < right <= samples_per_record - 1; two hits of one record
\* neither overlap nor touch: the later one starts after the right bound of
\* the earlier one.
C18_HitsOrderedAndApart ==
    called = "find_hits" =>
        \A hits \in {Emitted} :
            /\ \A n \in 1..Len(hits) :
                  /\ 0 <= hits[n].left
                  /\ hits[n].left < hits[n].right
                  /\ hits[n].right <= samples_per_record - 1
            /\ \A n \in 1..(Len(hits) - 1) :
                  /\ hits[n].record_i <= hits[n + 1].record_i
                  /\ hits[n].record_i = hits[n + 1].record_i =>
                        hits[n + 1].left > hits[n].right

\* Hits of two records have been delivered, two of them from one record
\* with a single sample between them.
C18_Witness ==
    /\ called = "find_hits"
    /\ gen.pc = "done"
    /\ \E m, n \in 1..Len(Emitted) :
          /\ m < n
          /\ Emitted[m].record_i < Emitted[n].record_i
    /\ \E n \in 1..(Len(Emitted) - 1) :
          /\ Emitted[n].record_i = Emitted[n + 1].record_i
          /\ Emitted[n + 1].left = Emitted[n].right + 1

====
